---- MODULE Spec2Model ----
(***************************************************************************)
(* Model of world/src/sim/util.rs: the grid index helpers                  *)
(* (uniform_idx_as_vec2, vec2_as_uniform_idx), the rank transform          *)
(* uniform_noise and the weighted Irwin-Hall CDF cdf_irwin_hall.           *)
(*                                                                         *)
(* f32 values are modelled as exact fractions <<n, d>> with d > 0 in       *)
(* lowest terms, and NaN as <<0, 0>>.  Within the bounds below every sum,  *)
(* product and power the code forms is exactly representable in f32        *)
(* (integers below 2^24 over a power of two), so only the quotients are    *)
(* idealised: a quotient is kept exact where f32 rounds it to the nearest  *)
(* representable value.  Rounding is monotone and n/n = 1 exactly, so      *)
(* order and the value 1 are the same in both.                             *)
(***************************************************************************)
EXTENDS Integers, Sequences, FiniteSets, TLC

VARIABLES
    WORLD_SIZE,     \* super::WORLD_SIZE, a record [x |-> W, y |-> H]
    f,              \* the sampling callback, as its result for each index
    pc,             \* position inside uniform_noise
    i,              \* the index the range 0..W*H hands to filter_map next
    calls,          \* the callback invocations so far, <<index, position>>
    noise,          \* the local Vec `noise` of (index, value) pairs
    total,          \* the local `total`
    noise_idx,      \* the enumerate() counter of the write-back loop
    uniform_noise_, \* the local boxed slice `uniform_noise`
    div_by_zero,    \* whether a division by 0.0 has been performed
    g_pc,           \* which grid index helper calls have been made
    g_in_idx,       \* the flat index a round trip started from
    g_in_vec,       \* the coordinate a round trip started from
    g_idx,          \* the flat index last passed or returned
    g_vec,          \* the coordinate last passed or returned
    N,              \* const generic N of cdf_irwin_hall
    weights,        \* argument `weights`
    samples,        \* argument `samples`
    c_pc,           \* position inside cdf_irwin_hall
    x,              \* the local `x`
    y,              \* the local `y`
    subset,         \* the loop variable `subset`
    visited,        \* the index sets whose term has been added to y
    result,         \* the value cdf_irwin_hall returned
    int_pc,         \* position inside the integer computations of
                    \* cdf_irwin_hall, taken on their own
    int_end,        \* the value of 1 << N, the end of the subset range
    int_i,          \* the weight index of the mask, then the next factor
    int_mask,       \* the value of (1 << i) as u32
    int_prod        \* the bit pattern of the running i32 product

noise_vars == <<WORLD_SIZE, f, pc, i, calls, noise, total, noise_idx,
                uniform_noise_, div_by_zero>>
grid_vars == <<g_pc, g_in_idx, g_in_vec, g_idx, g_vec>>
cdf_vars == <<N, weights, samples, c_pc, x, y, subset, visited, result>>
int_vars == <<int_pc, int_end, int_i, int_mask, int_prod>>
vars == <<noise_vars, grid_vars, cdf_vars, int_vars>>

----------------------------------------------------------------------------
(* Bounds *)

\* largest number of cells W*H of a grid uniform_noise runs on
MaxCells == 4
\* the finite sample values the callback may return are 0.0 .. MaxVal - 1
MaxVal == 3
\* largest width and height for the grid index helpers
MaxDim == 3
\* largest N of cdf_irwin_hall
MaxN == 3
\* largest N for which the integer computations of cdf_irwin_hall are
\* followed on their own: the practical ceiling of N
PracticalCeiling == 25
\* weights are 1.0 .. MaxWeight
MaxWeight == 2
\* samples are k / 2^SampleBits for k in 0 .. 2^SampleBits
SampleBits == 1

----------------------------------------------------------------------------
(* f32 *)

Abs(a) == IF a < 0 THEN -a ELSE a

RECURSIVE GCD(_, _)
GCD(a, b) == IF b = 0 THEN a ELSE GCD(b, a % b)

\* the fraction n/d (d > 0) in lowest terms
Norm(n, d) == LET g == GCD(Abs(n), d) IN <<n \div g, d \div g>>

NaN == <<0, 0>>
Inf == <<1, 0>>
NegInf == <<-1, 0>>
Zero == <<0, 1>>
One == <<1, 1>>

\* `n as f32`
F32(n) == <<n, 1>>

IsFinite(a) == a[2] > 0

F32Neg(a) == <<-a[1], a[2]>>

F32Add(a, b) ==
    IF IsFinite(a) /\ IsFinite(b) THEN Norm(a[1] * b[2] + b[1] * a[2], a[2] * b[2])
    ELSE IF a = NaN \/ b = NaN \/ (~IsFinite(a) /\ ~IsFinite(b) /\ a # b) THEN NaN
    ELSE IF IsFinite(a) THEN b ELSE a

F32Sub(a, b) == F32Add(a, F32Neg(b))

Sgn(n) == IF n > 0 THEN 1 ELSE IF n < 0 THEN -1 ELSE 0

F32Mul(a, b) ==
    IF IsFinite(a) /\ IsFinite(b) THEN Norm(a[1] * b[1], a[2] * b[2])
    ELSE IF a = NaN \/ b = NaN \/ a[1] = 0 \/ b[1] = 0 THEN NaN
    ELSE <<Sgn(a[1]) * Sgn(b[1]), 0>>

F32Div(a, b) ==
    IF a = NaN \/ b = NaN THEN NaN
    ELSE IF IsFinite(a) /\ IsFinite(b) THEN
        IF b[1] = 0 THEN (IF a[1] = 0 THEN NaN ELSE <<Sgn(a[1]), 0>>)
        ELSE Norm(a[1] * b[2] * Sgn(b[1]), a[2] * Abs(b[1]))
    ELSE IF ~IsFinite(a) /\ ~IsFinite(b) THEN NaN
    ELSE IF IsFinite(a) THEN Zero
    ELSE <<Sgn(a[1]) * (IF b[1] < 0 THEN -1 ELSE 1), 0>>

\* f32::partial_cmp: None when either side is NaN
F32PartialCmp(a, b) ==
    IF a = NaN \/ b = NaN THEN "None"
    ELSE IF IsFinite(a) /\ IsFinite(b) THEN
        (IF a[1] * b[2] < b[1] * a[2] THEN "Less"
         ELSE IF a[1] * b[2] > b[1] * a[2] THEN "Greater" ELSE "Equal")
    ELSE IF a = b THEN "Equal"
    ELSE IF a = NegInf \/ b = Inf THEN "Less" ELSE "Greater"

\* f32::max: the other operand when one is NaN
F32Max(a, b) ==
    IF a = NaN THEN b
    ELSE IF b = NaN THEN a
    ELSE IF F32PartialCmp(a, b) = "Less" THEN b ELSE a

\* f32::powi for n >= 0, by repeated squaring
RECURSIVE F32Powi(_, _)
F32Powi(a, n) ==
    IF n = 0 THEN One
    ELSE LET h == F32Powi(a, n \div 2)
         IN  IF n % 2 = 0 THEN F32Mul(h, h) ELSE F32Mul(a, F32Mul(h, h))

\* usize::cmp
UsizeCmp(a, b) == IF a < b THEN "Less" ELSE IF a > b THEN "Greater" ELSE "Equal"

\* Option<f32>
None == <<>>
Some(v) == <<v>>

----------------------------------------------------------------------------
(* Grid index helpers *)

\* TerrainChunkSize::RECT_SIZE, both components (set in common::terrain;
\* uniform_noise only scales the coordinate by it)
RECT_SIZE == 32

\* Vec2::new((idx % WORLD_SIZE.x) as i32, (idx / WORLD_SIZE.x) as i32)
uniform_idx_as_vec2(idx, world) ==
    [x |-> idx % world.x, y |-> idx \div world.x]

\* the row stride taken from the height instead of the width
vec2_as_uniform_idx_height(idx, world) ==
    idx.y * world.y + idx.x

\* (idx.y as usize * WORLD_SIZE.x + idx.x as usize) as usize. usize has 64
\* bits; `as usize` turns a negative component c into 2^64 + c, and the
\* value of the expression modulo 2^64 is written v for 0 <= v and stands
\* for 2^64 + v for v < 0 (the components modelled are small)
vec2_as_uniform_idx(idx, world) ==
    idx.y * world.x + idx.x

\* the multiplication or the addition of vec2_as_uniform_idx overflows
\* usize: a negative idx.y times a width of 2 or more, two negative
\* components, or one negative component and a sum that wraps past 2^64
Vec2AsIdxOverflows(idx, world) ==
    \/ idx.y < 0 /\ world.x >= 2
    \/ idx.x < 0 /\ idx.y < 0
    \/ (idx.x < 0 \/ idx.y < 0) /\ idx.y * world.x + idx.x >= 0

----------------------------------------------------------------------------
(* uniform_noise *)

Cells(world) == world.x * world.y

\* the grid coordinate handed to f as it is, not scaled
ChunkPosUnscaled(idx, world) == uniform_idx_as_vec2(idx, world)

\* the position handed to f: the grid coordinate scaled by the chunk size
ChunkPos(idx, world) ==
    LET v == uniform_idx_as_vec2(idx, world)
    IN  [x |-> v.x * RECT_SIZE, y |-> v.y * RECT_SIZE]

\* an absent sample collected as the value 0.0 instead of being dropped
CollectSampleAsZero(idx, res) ==
    IF res = None THEN << <<idx, Zero>> >> ELSE << <<idx, res[1]>> >>

\* the closure of filter_map: f(i, pos).map(|res| (i, res)), as the
\* entries it contributes to the collected Vec
CollectSample(idx, res) ==
    IF res = None THEN <<>> ELSE << <<idx, res[1]>> >>

\* the comparator without the index: f.1.partial_cmp(&g.1)
CompareValueOnly(a, b) == F32PartialCmp(a[2], b[2])

\* the comparator with the index compared the other way round
CompareIndexReversed(a, b) ==
    LET c == F32PartialCmp(a[2], b[2])
    IN  IF c # "Equal" THEN c ELSE UsizeCmp(b[1], a[1])

\* the comparator: (f.1, f.0).partial_cmp(&(g.1, g.0)), lexicographic
Compare(a, b) ==
    LET c == F32PartialCmp(a[2], b[2])
    IN  IF c # "Equal" THEN c ELSE UsizeCmp(a[1], b[1])

\* a slice is in the order the comparator defines
IsSortedBy(s) ==
    \A k \in 1..(Len(s) - 1) : Compare(s[k], s[k + 1]) \in {"Less", "Equal"}

Perms(n) ==
    {p \in [1..n -> 1..n] : \A a, b \in 1..n : a # b => p[a] # p[b]}

\* the slices sort_unstable_by may leave behind: any reordering of s that
\* is sorted by the comparator
SortResults(s) ==
    {t \in {[k \in 1..Len(s) |-> s[p[k]]] : p \in Perms(Len(s))} : IsSortedBy(t)}

\* the comparator's unwrap() panics: a sort of two or more elements
\* compares every element with another at least once
SortPanics(s) ==
    \E a, b \in 1..Len(s) : a # b /\ Compare(s[a], s[b]) = "None"

\* the number of cells of the grid instead of the number of samples
TotalCountOfCells(s) == F32(Cells(WORLD_SIZE))

\* noise.len() as f32
TotalCount(s) == F32(Len(s))

\* the 0-based position
RankOfZeroBased(k) == F32(k)

\* (1 + noise_idx) as f32
RankOf(k) == F32(1 + k)

\* a grid with one slot for each collected sample only
EmptyGridOfSamples(world) == [c \in 0..(Len(noise) - 1) |-> <<Zero, Zero>>]

\* vec![(0.0, 0.0); WORLD_SIZE.x * WORLD_SIZE.y]
EmptyGrid(world) == [c \in 0..(Cells(world) - 1) |-> <<Zero, Zero>>]

F32Vals == {F32(v) : v \in 0..(MaxVal - 1)} \cup {NaN}
Options == {None} \cup {Some(v) : v \in F32Vals}

Worlds ==
    {w \in [x : 1..MaxCells, y : 1..MaxCells] : w.x * w.y <= MaxCells}

Origin == [x |-> 0, y |-> 0]
GridIdle ==
    /\ g_pc = "idle" /\ g_in_idx = 0 /\ g_in_vec = Origin
    /\ g_idx = 0 /\ g_vec = Origin
CdfIdle ==
    /\ N = 0 /\ weights = <<>> /\ samples = <<>> /\ c_pc = "idle"
    /\ x = Zero /\ y = Zero /\ subset = 0 /\ visited = <<>> /\ result = Zero
IntIdle ==
    /\ int_pc = "idle" /\ int_end = 0 /\ int_i = 0 /\ int_mask = 0
    /\ int_prod = <<0, 0>>
NoiseIdle ==
    /\ WORLD_SIZE = [x |-> 1, y |-> 1] /\ f = <<>> /\ pc = "idle" /\ i = 0
    /\ calls = <<>> /\ noise = <<>> /\ total = Zero /\ noise_idx = 0
    /\ uniform_noise_ = <<>> /\ div_by_zero = FALSE

NoiseInit ==
    /\ WORLD_SIZE \in Worlds
    /\ f \in [0..(Cells(WORLD_SIZE) - 1) -> Options]
    /\ pc = "sample"
    /\ i = 0
    /\ calls = <<>>
    /\ noise = <<>>
    /\ total = Zero
    /\ noise_idx = 0
    /\ uniform_noise_ = <<>>
    /\ div_by_zero = FALSE
    /\ GridIdle
    /\ CdfIdle
    /\ IntIdle

\* one step of the filter_map over 0..WORLD_SIZE.x * WORLD_SIZE.y
Sample ==
    /\ pc = "sample"
    /\ i < Cells(WORLD_SIZE)
    /\ calls' = Append(calls, <<i, ChunkPos(i, WORLD_SIZE)>>)
    /\ noise' = noise \o CollectSample(i, f[i])
    /\ i' = i + 1
    /\ UNCHANGED <<WORLD_SIZE, f, pc, total, noise_idx, uniform_noise_, div_by_zero>>

\* the range is exhausted: collect() returns
Collected ==
    /\ pc = "sample"
    /\ i = Cells(WORLD_SIZE)
    /\ pc' = "sort"
    /\ UNCHANGED <<WORLD_SIZE, f, i, calls, noise, total, noise_idx,
                   uniform_noise_, div_by_zero>>

\* noise.sort_unstable_by(...): slices shorter than 2 are returned as they
\* are, without a call of the comparator
Sort ==
    /\ pc = "sort"
    /\ IF Len(noise) < 2
         THEN pc' = "alloc" /\ noise' = noise
         ELSE IF SortPanics(noise)
           THEN pc' = "panicked" /\ noise' = noise
           ELSE pc' = "alloc" /\ noise' \in SortResults(noise)
    /\ UNCHANGED <<WORLD_SIZE, f, i, calls, total, noise_idx, uniform_noise_,
                   div_by_zero>>

\* let mut uniform_noise = vec![..]; let total = noise.len() as f32;
Alloc ==
    /\ pc = "alloc"
    /\ uniform_noise_' = EmptyGrid(WORLD_SIZE)
    /\ total' = TotalCount(noise)
    /\ noise_idx' = 0
    /\ pc' = "write"
    /\ UNCHANGED <<WORLD_SIZE, f, i, calls, noise, div_by_zero>>

\* one iteration of the write-back loop
Write ==
    /\ pc = "write"
    /\ noise_idx < Len(noise)
    /\ LET chunk_idx == noise[noise_idx + 1][1]
           noise_val == noise[noise_idx + 1][2]
       IN  uniform_noise_' =
             [uniform_noise_ EXCEPT
                ![chunk_idx] = <<F32Div(RankOf(noise_idx), total), noise_val>>]
    /\ div_by_zero' = (div_by_zero \/ total = Zero)
    /\ noise_idx' = noise_idx + 1
    /\ UNCHANGED <<WORLD_SIZE, f, pc, i, calls, noise, total>>

\* the loop is over: uniform_noise is returned
Return ==
    /\ pc = "write"
    /\ noise_idx = Len(noise)
    /\ pc' = "done"
    /\ UNCHANGED <<WORLD_SIZE, f, i, calls, noise, total, noise_idx,
                   uniform_noise_, div_by_zero>>

NoiseNext ==
    /\ (Sample \/ Collected \/ Sort \/ Alloc \/ Write \/ Return)
    /\ UNCHANGED <<grid_vars, cdf_vars, int_vars>>

SpecNoise == NoiseInit /\ [][NoiseNext]_vars

(* uniform_noise as a whole: what a call with callback g on a grid `world` *)
(* returns, as the set of grids the sort's freedom allows; empty when the  *)
(* call panics                                                             *)

RECURSIVE CollectAll(_, _)
CollectAll(g, n) ==
    IF n = 0 THEN <<>>
    ELSE CollectAll(g, n - 1) \o CollectSample(n - 1, g[n - 1])

\* the grid after the write-back loop has run over the sorted slice s
WriteBack(s, world) ==
    [c \in DOMAIN EmptyGrid(world) |->
        IF \E k \in 1..Len(s) : s[k][1] = c
        THEN LET k == CHOOSE k \in 1..Len(s) : s[k][1] = c
             IN  <<F32Div(RankOf(k - 1), TotalCount(s)), s[k][2]>>
        ELSE EmptyGrid(world)[c]]

UniformNoiseResults(g, world) ==
    LET s == CollectAll(g, Cells(world))
    IN  IF Len(s) < 2 THEN {WriteBack(s, world)}
        ELSE IF SortPanics(s) THEN {}
        ELSE {WriteBack(t, world) : t \in SortResults(s)}

\* the step-by-step call and the call as a whole agree
StepsMatchWhole ==
    /\ pc = "done" => uniform_noise_ \in UniformNoiseResults(f, WORLD_SIZE)
    /\ pc = "panicked" => UniformNoiseResults(f, WORLD_SIZE) = {}

----------------------------------------------------------------------------
(* Properties of uniform_noise *)

\* the cells with a present sample, and their samples
PresentCells == {c \in DOMAIN f : f[c] # None}
SampleAt(c) == f[c][1]
AllAbsent == PresentCells = {}
HasNaN == \E c \in PresentCells : SampleAt(c) = NaN

\* a < b for two values that are numbers
NumLess(a, b) == a[1] * b[2] < b[1] * a[2]

\* (sample(c1), c1) is lexicographically smaller than (sample(c2), c2)
LexLess(c1, c2) ==
    \/ NumLess(SampleAt(c1), SampleAt(c2))
    \/ SampleAt(c1) = SampleAt(c2) /\ c1 < c2

\* the 1-based position of cell c among the present (value, index) pairs
PositionOf(c) == 1 + Cardinality({d \in PresentCells \ {c} : LexLess(d, c)})

FractionAt(c) == uniform_noise_[c][1]

\* C2: when uniform_noise returns, every cell c with a present sample v
\* holds (r / total_count, v), r being the 1-based position of (v, c)
\* among the present (value, index) pairs in ascending order and
\* total_count the number of present samples.
C2_RankOverPresentCount ==
    pc = "done" =>
        \A c \in PresentCells :
            uniform_noise_[c] =
                <<Norm(PositionOf(c), Cardinality(PresentCells)), SampleAt(c)>>

\* samples [1.0, absent, 0.0, 2.0]: ranks 2, -, 1, 3 of 3
C2_Witness ==
    /\ pc = "done"
    /\ Cells(WORLD_SIZE) = 4
    /\ f = [c \in 0..3 |-> IF c = 1 THEN None
                           ELSE Some(F32(IF c = 0 THEN 1 ELSE IF c = 2 THEN 0 ELSE 2))]
    /\ uniform_noise_[0] = <<<<2, 3>>, F32(1)>>
    /\ uniform_noise_[2] = <<<<1, 3>>, F32(0)>>
    /\ uniform_noise_[3] = <<One, F32(2)>>

\* C3: in the returned grid, for two distinct cells with present samples,
\* fraction(c1) < fraction(c2) exactly when (sample(c1), c1) is
\* lexicographically smaller than (sample(c2), c2).
C3_FractionOrderIsLexOrder ==
    pc = "done" =>
        \A c1, c2 \in PresentCells :
            c1 # c2 =>
                (NumLess(FractionAt(c1), FractionAt(c2)) <=> LexLess(c1, c2))

\* two equal samples and a smaller one after them
C3_Witness ==
    /\ pc = "done"
    /\ Cells(WORLD_SIZE) = 3
    /\ f = [c \in 0..2 |-> Some(F32(IF c = 2 THEN 0 ELSE 1))]
    /\ FractionAt(2) = <<1, 3>>
    /\ FractionAt(0) = <<2, 3>>
    /\ FractionAt(1) = One

\* C4: when uniform_noise returns and a sample is present, every present
\* cell's fraction is in (0, 1], the cell last in (value, index) order
\* holds the largest sample and has fraction 1, and the cell first in that
\* order has fraction 1 / total_count.
C4_FractionRange ==
    (pc = "done" /\ ~AllAbsent) =>
        /\ \A c \in PresentCells :
              /\ NumLess(Zero, FractionAt(c))
              /\ ~NumLess(One, FractionAt(c))
        /\ \A c \in PresentCells :
              (\A d \in PresentCells \ {c} : LexLess(d, c)) =>
                  /\ FractionAt(c) = One
                  /\ \A d \in PresentCells : ~NumLess(SampleAt(c), SampleAt(d))
        /\ \A c \in PresentCells :
              (\A d \in PresentCells \ {c} : LexLess(c, d)) =>
                  FractionAt(c) = Norm(1, Cardinality(PresentCells))

\* two present samples among four cells
C4_Witness ==
    /\ pc = "done"
    /\ Cells(WORLD_SIZE) = 4
    /\ PresentCells = {1, 3}
    /\ SampleAt(1) = F32(2)
    /\ SampleAt(3) = F32(0)
    /\ FractionAt(1) = One
    /\ FractionAt(3) = <<1, 2>>

\* the fraction stored for the cell at 1-based position k of the sorted
\* vector
FractionAtSorted(k) == FractionAt(noise[k][1])

Entries(s) == {s[k] : k \in 1..Len(s)}

\* C17: on the (value, index) pairs of present non-NaN samples the
\* comparator is a strict total order in which no two distinct entries
\* compare equal; so every correct sort, stable or not, leaves the same
\* sorted slice, and the grid returned is the only grid a call with this
\* callback can return.
C17_SortOrderIsUnique ==
    ~HasNaN =>
        /\ pc = "sort" =>
              /\ \A a, b \in Entries(noise) :
                    /\ Compare(a, b) \in {"Less", "Equal", "Greater"}
                    /\ Compare(a, b) = "Equal" <=> a = b
                    /\ Compare(a, b) = "Less" <=> Compare(b, a) = "Greater"
              /\ \A a, b, c \in Entries(noise) :
                    (Compare(a, b) = "Less" /\ Compare(b, c) = "Less")
                        => Compare(a, c) = "Less"
              /\ Cardinality(SortResults(noise)) = 1
        /\ pc = "done" =>
              /\ IsSortedBy(noise)
              /\ UniformNoiseResults(f, WORLD_SIZE) = {uniform_noise_}

\* four cells with the same sample: the ties are broken by the index
C17_Witness ==
    /\ pc = "done"
    /\ f = [c \in 0..3 |-> Some(F32(1))]
    /\ noise = <<<<0, F32(1)>>, <<1, F32(1)>>, <<2, F32(1)>>, <<3, F32(1)>>>>
    /\ FractionAt(0) = <<1, 4>>
    /\ FractionAt(3) = One

\* the k-th invocation of the callback when the indices are visited once
\* each in ascending order: index k - 1 and its scaled grid coordinate
ExpectedCall(k) ==
    <<k - 1, [x |-> ((k - 1) % WORLD_SIZE.x) * RECT_SIZE,
              y |-> ((k - 1) \div WORLD_SIZE.x) * RECT_SIZE]>>

\* C18: one call of uniform_noise invokes the callback exactly once for
\* each flat index i in [0, W*H) and for no other index, with the position
\* (i mod W, i div W) scaled by the chunk size; every invocation precedes
\* the sort, and the sort precedes every write to the output grid.
C18_CallsThenSortThenWrite ==
    pc # "idle" =>
        /\ \A k \in 1..Len(calls) : calls[k] = ExpectedCall(k)
        /\ pc = "sample" => Len(calls) = i /\ i <= Cells(WORLD_SIZE)
        /\ pc # "sample" => Len(calls) = Cells(WORLD_SIZE)
        /\ pc \in {"sample", "sort", "panicked"} => uniform_noise_ = <<>>
        /\ pc \in {"sample", "sort"} => noise = CollectAll(f, Len(calls))
        /\ pc \in {"alloc", "write", "done"} =>
              /\ IsSortedBy(noise)
              /\ Entries(noise) = Entries(CollectAll(f, Cells(WORLD_SIZE)))

\* a 2 x 2 grid: the fourth and last invocation is for index 3 at the
\* position (32, 32)
C18_Witness ==
    /\ pc = "done"
    /\ WORLD_SIZE = [x |-> 2, y |-> 2]
    /\ Len(calls) = 4
    /\ calls[4] = <<3, [x |-> 32, y |-> 32]>>
    /\ PresentCells = DOMAIN f

\* the callback with one more absent cell, put in at index k
InsertAbsent(g, n, k) ==
    [c \in 0..n |-> IF c < k THEN g[c] ELSE IF c = k THEN None ELSE g[c - 1]]

\* where cell c has moved to
Shifted(c, k) == IF c < k THEN c ELSE c + 1

\* C5: every absent cell holds (0.0, 0.0) in the returned grid, and an
\* absent cell does not influence present cells: a second call whose
\* callback has one more absent cell, anywhere, returns and gives every
\* present cell the fraction it has here.  (Two callbacks with the same
\* present values in index order differ by a chain of such insertions and
\* removals.)
C5_AbsentCellsAreInert ==
    pc = "done" =>
        /\ \A c \in DOMAIN f : f[c] = None => uniform_noise_[c] = <<Zero, Zero>>
        /\ \A k \in 0..Cells(WORLD_SIZE) :
              LET n == Cells(WORLD_SIZE)
                  second == UniformNoiseResults(InsertAbsent(f, n, k),
                                                [x |-> n + 1, y |-> 1])
              IN  /\ second # {}
                  /\ \A r \in second :
                        /\ r[k] = <<Zero, Zero>>
                        /\ \A c \in PresentCells :
                              r[Shifted(c, k)][1] = FractionAt(c)

\* absent cells before, between and after two present ones
C5_Witness ==
    /\ pc = "done"
    /\ Cells(WORLD_SIZE) = 4
    /\ PresentCells = {1, 2}
    /\ uniform_noise_[0] = <<Zero, Zero>>
    /\ uniform_noise_[3] = <<Zero, Zero>>
    /\ FractionAt(1) # FractionAt(2)

\* C6: when the callback returns absent for every cell, uniform_noise does
\* not panic, performs no division by zero, and the grid it returns has
\* W*H entries, all (0.0, 0.0).
C6_AllAbsentGivesZeroGrid ==
    AllAbsent =>
        /\ pc # "panicked"
        /\ ~div_by_zero
        /\ pc = "done" =>
              /\ DOMAIN uniform_noise_ = 0..(WORLD_SIZE.x * WORLD_SIZE.y - 1)
              /\ \A c \in DOMAIN uniform_noise_ : uniform_noise_[c] = <<Zero, Zero>>

\* a 2 x 2 grid without samples has been returned
C6_Witness ==
    /\ pc = "done"
    /\ WORLD_SIZE = [x |-> 2, y |-> 2]
    /\ AllAbsent
    /\ total = Zero
    /\ uniform_noise_ = [c \in 0..3 |-> <<Zero, Zero>>]

\* C7: when the callback returns a present NaN for some cell,
\* uniform_noise returns no grid (it panics).
C7_NaNNeverReturns ==
    HasNaN => pc # "done"

\* C8: when all present samples are equal, the n present cells, taken in
\* ascending index order, have the fractions 1/n, 2/n, ..., n/n.
C8_EqualSamplesEvenlySpaced ==
    (/\ pc = "done"
     /\ \A c1, c2 \in PresentCells :
           F32PartialCmp(SampleAt(c1), SampleAt(c2)) = "Equal") =>
        \A c \in PresentCells :
            FractionAt(c) =
                Norm(1 + Cardinality({d \in PresentCells : d < c}),
                     Cardinality(PresentCells))

\* three equal samples around an absent cell
C8_Witness ==
    /\ pc = "done"
    /\ Cells(WORLD_SIZE) = 4
    /\ PresentCells = {0, 2, 3}
    /\ \A c \in PresentCells : SampleAt(c) = F32(1)
    /\ FractionAt(0) = <<1, 3>>
    /\ FractionAt(2) = <<2, 3>>
    /\ FractionAt(3) = One

----------------------------------------------------------------------------
(* cdf_irwin_hall *)

\* u32::count_ones
RECURSIVE count_ones(_)
count_ones(n) == IF n = 0 THEN 0 ELSE (n % 2) + count_ones(n \div 2)

\* the mask (1 << i) as u32, for i below 31
Mask(b) == 2 ^ b

\* the filter of the inner sum: subset & (1 << i) as u32 != 0
BitSet(s, b) == (s \div Mask(b)) % 2 = 1

\* the exclusive end of the range 0u32..(1 << N), for N below 31
SubsetEnd(n) == 2 ^ n

\* weights.iter().zip(samples.iter()).map(|(w, s)| w * s).sum(), for the
\* first n elements
RECURSIVE WeightedSum(_, _, _)
WeightedSum(w, u, n) ==
    IF n = 0 THEN Zero
    ELSE F32Add(WeightedSum(w, u, n - 1), F32Mul(w[n], u[n]))

\* weights.iter().enumerate().filter(..).map(|(_, k)| k).sum::<f32>(), for
\* the first n elements; element i of the slice is w[i + 1]
RECURSIVE SubsetWeight(_, _, _)
SubsetWeight(w, s, n) ==
    IF n = 0 THEN Zero
    ELSE IF BitSet(s, n - 1) THEN F32Add(SubsetWeight(w, s, n - 1), w[n])
    ELSE SubsetWeight(w, s, n - 1)

\* the difference raised to the power without the clamp
PowerUnclamped(d, n) == F32Powi(d, n)

\* (x - z).max(0.0).powi(N as i32), d being x - z
ClampedPower(d, n) == F32Powi(F32Max(d, Zero), n)

\* the term negated for even k instead of odd k
SignedTermFlipped(k, z) == IF k % 2 = 0 THEN F32Neg(z) ELSE z

\* if k & 1 == 0 { z } else { -z }
SignedTerm(k, z) == IF k % 2 = 0 THEN z ELSE F32Neg(z)

\* the weights added up instead of multiplied
RECURSIVE WeightProductAsSum(_, _)
WeightProductAsSum(w, n) ==
    IF n = 0 THEN Zero ELSE F32Add(WeightProductAsSum(w, n - 1), w[n])

\* weights.iter().product::<f32>(), for the first n elements
RECURSIVE WeightProduct(_, _)
WeightProduct(w, n) ==
    IF n = 0 THEN One ELSE F32Mul(WeightProduct(w, n - 1), w[n])

\* An i32 is kept as its 32-bit pattern <<hi, lo>>, two 16-bit halves.
I32One == <<0, 1>>

\* the 33 and more bits of pattern a times k, as <<hi, lo>> with hi not
\* yet cut to 16 bits (0 < k < 2^15)
MulWide(a, k) ==
    LET lo == a[2] * k
    IN  <<a[1] * k + lo \div 65536, lo % 65536>>

\* i32 multiplication a * k without overflow checks: the low 32 bits
I32WrappingMul(a, k) ==
    LET w == MulWide(a, k) IN <<w[1] % 65536, w[2]>>

\* a * k does not fit an i32, for a pattern a that is not negative
I32MulOverflows(a, k) == MulWide(a, k)[1] >= 32768

\* the number a pattern stands for (two's complement)
I32Value(a) ==
    IF a[1] < 32768 THEN a[1] * 65536 + a[2]
    ELSE (a[1] - 65536) * 65536 + a[2]

\* the pattern of (1..=N as i32).product::<i32>() when overflow is not
\* checked
RECURSIVE FactorialBits(_)
FactorialBits(n) ==
    IF n = 0 THEN I32One ELSE I32WrappingMul(FactorialBits(n - 1), n)

\* a multiplication of the product overflows i32: a build with overflow
\* checks panics at the first one
RECURSIVE FactorialOverflows(_)
FactorialOverflows(n) ==
    /\ n > 0
    /\ \/ FactorialOverflows(n - 1)
       \/ I32MulOverflows(FactorialBits(n - 1), n)

\* the product over the exclusive range 1..N
FactorialExclusive(n) == I32Value(FactorialBits(n - 1))

\* (1..=N as i32).product::<i32>()
Factorial(n) == I32Value(FactorialBits(n))

WeightVals == {F32(w) : w \in 1..MaxWeight}
SampleVals == {Norm(k, 2 ^ SampleBits) : k \in 0..(2 ^ SampleBits)}

CdfInit ==
    /\ N \in 1..MaxN
    /\ weights \in [1..N -> WeightVals]
    /\ samples \in [1..N -> SampleVals]
    /\ c_pc = "sum"
    /\ x = Zero
    /\ y = Zero
    /\ subset = 0
    /\ visited = <<>>
    /\ result = Zero
    /\ NoiseIdle
    /\ GridIdle
    /\ IntIdle

\* let x = ...sum(); let mut y = 0.0f32; and the loop is entered
CdfSum ==
    /\ c_pc = "sum"
    /\ x' = WeightedSum(weights, samples, N)
    /\ y' = Zero
    /\ subset' = 0
    /\ c_pc' = "loop"
    /\ UNCHANGED <<N, weights, samples, visited, result>>

\* one iteration of the loop over the subsets
CdfTerm ==
    /\ c_pc = "loop"
    /\ subset < SubsetEnd(N)
    /\ LET k == count_ones(subset)
           z == SubsetWeight(weights, subset, N)
           zp == ClampedPower(F32Sub(x, z), N)
       IN  y' = F32Add(y, SignedTerm(k, zp))
    /\ visited' = Append(visited, {j \in 1..N : BitSet(subset, j - 1)})
    /\ subset' = subset + 1
    /\ UNCHANGED <<N, weights, samples, c_pc, x, result>>

\* the range is exhausted
CdfLoopEnd ==
    /\ c_pc = "loop"
    /\ subset = SubsetEnd(N)
    /\ c_pc' = "divide"
    /\ UNCHANGED <<N, weights, samples, x, y, subset, visited, result>>

\* y /= product of the weights
CdfDivide ==
    /\ c_pc = "divide"
    /\ y' = F32Div(y, WeightProduct(weights, N))
    /\ c_pc' = "return"
    /\ UNCHANGED <<N, weights, samples, x, subset, visited, result>>

\* y / N! is returned; when the i32 product overflows, a build with
\* overflow checks panics and a build without them divides by the wrapped
\* product
CdfReturn ==
    /\ c_pc = "return"
    /\ \/ /\ result' = F32Div(y, F32(Factorial(N)))
          /\ c_pc' = "done"
       \/ /\ FactorialOverflows(N)
          /\ result' = result
          /\ c_pc' = "panicked"
    /\ UNCHANGED <<N, weights, samples, x, y, subset, visited>>

CdfNext ==
    /\ (CdfSum \/ CdfTerm \/ CdfLoopEnd \/ CdfDivide \/ CdfReturn)
    /\ UNCHANGED <<noise_vars, grid_vars, int_vars>>

SpecCdf == CdfInit /\ [][CdfNext]_vars

----------------------------------------------------------------------------
(* Properties of cdf_irwin_hall *)

\* the sum of a_k over k in S
RECURSIVE SetWeight(_)
SetWeight(S) ==
    IF S = {} THEN Zero
    ELSE LET k == CHOOSE k \in S : TRUE
         IN  F32Add(weights[k], SetWeight(S \ {k}))

\* the sum of a_k * u_k over k in S
RECURSIVE SetWeightedSum(_)
SetWeightedSum(S) ==
    IF S = {} THEN Zero
    ELSE LET k == CHOOSE k \in S : TRUE
         IN  F32Add(F32Mul(weights[k], samples[k]), SetWeightedSum(S \ {k}))

\* the product of a_k over k in S
RECURSIVE SetProduct(_)
SetProduct(S) ==
    IF S = {} THEN One
    ELSE LET k == CHOOSE k \in S : TRUE
         IN  F32Mul(weights[k], SetProduct(S \ {k}))

\* (-1)^|S| * max(0, x0 - sum of a_k over S)^N
AlternatingTerm(S, x0) ==
    LET d == F32Sub(x0, SetWeight(S))
        clamped == IF NumLess(d, Zero) THEN Zero ELSE d
        p == F32Powi(clamped, N)
    IN  IF Cardinality(S) % 2 = 1 THEN F32Neg(p) ELSE p

\* the sum of the alternating terms over the family of sets SS
RECURSIVE AlternatingSum(_, _)
AlternatingSum(SS, x0) ==
    IF SS = {} THEN Zero
    ELSE LET S == CHOOSE S \in SS : TRUE
         IN  F32Add(AlternatingTerm(S, x0), AlternatingSum(SS \ {S}, x0))

RECURSIVE MathFactorial(_)
MathFactorial(n) == IF n <= 1 THEN 1 ELSE n * MathFactorial(n - 1)

\* C9: cdf_irwin_hall returns, with x the sum of a_k*u_k,
\* (1 / (A * N!)) * sum over all subsets S of {1..N} of
\* (-1)^|S| * max(0, x - sum of a_k over S)^N, A being the product of the
\* weights; the loop visits each of the 2^N subsets exactly once, the
\* empty set among them.
C9_AlternatingSubsetSum ==
    c_pc = "done" =>
        /\ Len(visited) = 2 ^ N
        /\ {visited[k] : k \in 1..Len(visited)} = SUBSET (1..N)
        /\ x = SetWeightedSum(1..N)
        /\ result =
              F32Div(AlternatingSum(SUBSET (1..N), SetWeightedSum(1..N)),
                     F32Mul(SetProduct(1..N), F32(MathFactorial(N))))

\* N = 3, weights 1, 2, 2 and samples 1, 1/2, 1/2: x = 3 and
\* F = (27 - 8 - 1 - 1) / (4 * 6) = 17/24
C9_Witness ==
    /\ c_pc = "done"
    /\ N = 3
    /\ weights = <<F32(1), F32(2), F32(2)>>
    /\ samples = <<One, <<1, 2>>, <<1, 2>>>>
    /\ x = F32(3)
    /\ result = <<17, 24>>

\* C10: for N = 1 and weight 1.0, cdf_irwin_hall returns its sample u,
\* for every u in [0, 1].
C10_IdentityForOneUnitWeight ==
    (c_pc = "done" /\ N = 1 /\ weights[1] = One) => result = samples[1]

\* u = 0.5 returns 0.5
C10_Witness ==
    /\ c_pc = "done"
    /\ N = 1
    /\ weights = <<One>>
    /\ samples = << <<1, 2>> >>
    /\ result = <<1, 2>>

\* C11: for N = 2 and weights 1.0, 1.0, cdf_irwin_hall returns 0.5 for
\* every pair of samples whose weighted sum x is 1.
C11_MedianOfTwoUnitWeights ==
    (c_pc = "done" /\ N = 2 /\ weights = <<One, One>> /\ x = One) =>
        result = <<1, 2>>

\* u_1 = u_2 = 0.5
C11_Witness ==
    /\ c_pc = "done"
    /\ N = 2
    /\ weights = <<One, One>>
    /\ samples = << <<1, 2>>, <<1, 2>> >>
    /\ x = One
    /\ result = <<1, 2>>

\* C19: for positive weights, cdf_irwin_hall returns 0 when every sample
\* is 0 and 1 when every sample is 1 (x is then the sum of the weights and
\* the alternating sum is N! times the product of the weights).
C19_EndPoints ==
    c_pc = "done" =>
        /\ (\A k \in 1..N : samples[k] = Zero) => result = Zero
        /\ (\A k \in 1..N : samples[k] = One) =>
              /\ x = SetWeight(1..N)
              /\ y = F32(MathFactorial(N))
              /\ result = One

\* weights 1, 2, 2 with all samples 1: x = 5 and the result is 1
C19_Witness ==
    /\ c_pc = "done"
    /\ N = 3
    /\ weights = <<F32(1), F32(2), F32(2)>>
    /\ samples = <<One, One, One>>
    /\ x = F32(5)
    /\ result = One

----------------------------------------------------------------------------
(* cdf_irwin_hall for larger N: unit weights, samples 1 for the first few  *)
(* variables and 0 for the others, and the loop over the subsets taken     *)
(* LoopChunk iterations at a time                                          *)

\* the number of iterations one step of the loop takes
LoopChunk == 16

\* the inputs <<N, number of samples that are 1>>: some N whose factorial
\* fits i32, the first N whose factorial overflows i32, and the first N
\* whose wrapped factorial is negative
WideInputs == {<<5, 2>>, <<9, 0>>, <<11, 3>>, <<13, 3>>, <<17, 3>>}

\* the sum of the weights w[lo + 1 .. hi] whose bit is set in s; the
\* model's sums are exact, so the grouping of the additions does not
\* matter and the range is summed by halves
RECURSIVE SubsetWeightRange(_, _, _, _)
SubsetWeightRange(w, s, lo, hi) ==
    IF hi <= lo THEN Zero
    ELSE IF hi = lo + 1 THEN (IF BitSet(s, lo) THEN w[hi] ELSE Zero)
    ELSE LET mid == (lo + hi) \div 2
         IN  F32Add(SubsetWeightRange(w, s, lo, mid),
                    SubsetWeightRange(w, s, mid, hi))

\* the sum of the signed terms of the subsets lo .. hi - 1, by halves
RECURSIVE SubsetRangeSum(_, _, _, _, _)
SubsetRangeSum(w, x0, n, lo, hi) ==
    IF hi <= lo THEN Zero
    ELSE IF hi = lo + 1 THEN
        SignedTerm(count_ones(lo),
                   ClampedPower(F32Sub(x0, SubsetWeightRange(w, lo, 0, n)), n))
    ELSE LET mid == (lo + hi) \div 2
         IN  F32Add(SubsetRangeSum(w, x0, n, lo, mid),
                    SubsetRangeSum(w, x0, n, mid, hi))

WideInit ==
    /\ \E in \in WideInputs :
          /\ N = in[1]
          /\ samples = [k \in 1..in[1] |-> IF k <= in[2] THEN One ELSE Zero]
    /\ weights = [k \in 1..N |-> One]
    /\ c_pc = "sum"
    /\ x = Zero
    /\ y = Zero
    /\ subset = 0
    /\ visited = <<>>
    /\ result = Zero
    /\ NoiseIdle
    /\ GridIdle
    /\ IntIdle

\* the next LoopChunk iterations of the loop over the subsets
CdfLoop ==
    /\ c_pc = "loop"
    /\ subset < SubsetEnd(N)
    /\ LET hi == IF subset + LoopChunk < SubsetEnd(N) THEN subset + LoopChunk
                 ELSE SubsetEnd(N)
       IN  /\ y' = F32Add(y, SubsetRangeSum(weights, x, N, subset, hi))
           /\ subset' = hi
    /\ UNCHANGED <<N, weights, samples, c_pc, x, visited, result>>

WideNext ==
    /\ (CdfSum \/ CdfLoop \/ CdfLoopEnd \/ CdfDivide \/ CdfReturn)
    /\ UNCHANGED <<noise_vars, grid_vars, int_vars>>

SpecCdfWide == WideInit /\ [][WideNext]_vars

\* the loop taken step by step has added what the loop taken by chunks adds
LoopStepsMatchWhole ==
    c_pc = "loop" =>
        /\ y = SubsetRangeSum(weights, x, N, 0, subset)
        /\ \A s \in 0..(SubsetEnd(N) - 1) :
              SubsetWeight(weights, s, N) = SubsetWeightRange(weights, s, 0, N)

\* the tolerance allowed for floating-point error
Epsilon == <<1, 1000>>

\* a < -e for a fraction a and a tolerance e = 1/k: n/d < -1/k exactly
\* when n <= -(d div k) - 1 (written without the products n*k and d*k)
BelowNegated(a, e) == a[1] <= -(a[2] \div e[2]) - 1

\* C12: for positive weights and samples in [0, 1] the value
\* cdf_irwin_hall returns lies in [0 - eps, 1 + eps].
C12_ResultInUnitInterval ==
    c_pc = "done" =>
        /\ IsFinite(result)
        /\ ~BelowNegated(result, Epsilon)
        /\ ~BelowNegated(F32Sub(One, result), Epsilon)

----------------------------------------------------------------------------
(* cdf_irwin_hall called with weights that need not be positive            *)

MaxLooseN == 2

LooseWeightVals == {F32(-1), Zero, One}

LooseInit ==
    /\ N \in 1..MaxLooseN
    /\ weights \in [1..N -> LooseWeightVals]
    /\ samples \in [1..N -> SampleVals]
    /\ c_pc = "sum"
    /\ x = Zero
    /\ y = Zero
    /\ subset = 0
    /\ visited = <<>>
    /\ result = Zero
    /\ NoiseIdle
    /\ GridIdle
    /\ IntIdle

SpecCdfLoose == LooseInit /\ [][CdfNext]_vars

\* C15: cdf_irwin_hall called with a weight that is zero or negative fails
\* loudly: it does not return a result.
C15_NonPositiveWeightFailsLoudly ==
    (\E k \in 1..N : weights[k][1] <= 0) => c_pc # "done"

\* a call with the single weight -1 returns 1 - u, a value in [0, 1]
NegativeWeightReturnsFraction ==
    /\ c_pc = "done"
    /\ N = 1
    /\ weights = <<F32(-1)>>
    /\ samples = <<Norm(1, 2)>>
    /\ result = Norm(1, 2)

----------------------------------------------------------------------------
(* The integer computations of cdf_irwin_hall on their own: the end of the *)
(* subset range, the masks of the weight indices and the i32 product       *)

IntInit ==
    /\ N \in 1..PracticalCeiling
    /\ weights = <<>> /\ samples = <<>> /\ c_pc = "idle"
    /\ x = Zero /\ y = Zero /\ subset = 0 /\ visited = <<>> /\ result = Zero
    /\ int_pc = "range"
    /\ int_end = 0
    /\ int_i = 0
    /\ int_mask = 0
    /\ int_prod = <<0, 0>>
    /\ NoiseIdle
    /\ GridIdle

\* 0u32..(1 << N)
IntRange ==
    /\ int_pc = "range"
    /\ int_end' = SubsetEnd(N)
    /\ int_i' = 0
    /\ int_pc' = "masks"
    /\ UNCHANGED <<int_mask, int_prod>>

\* (1 << i) as u32, for the next weight index i of enumerate()
IntMask ==
    /\ int_pc = "masks"
    /\ int_i < N
    /\ int_mask' = Mask(int_i)
    /\ int_i' = int_i + 1
    /\ UNCHANGED <<int_pc, int_end, int_prod>>

\* the weights are exhausted; the product over 1..=N starts from 1
IntMasksEnd ==
    /\ int_pc = "masks"
    /\ int_i = N
    /\ int_prod' = I32One
    /\ int_i' = 1
    /\ int_pc' = "product"
    /\ UNCHANGED <<int_end, int_mask>>

\* the product is multiplied by the next factor; a build with overflow
\* checks panics at the first multiplication that overflows
IntFactor ==
    /\ int_pc = "product"
    /\ int_i <= N
    /\ \/ /\ int_prod' = I32WrappingMul(int_prod, int_i)
          /\ int_i' = int_i + 1
          /\ int_pc' = int_pc
       \/ /\ ~FactorialOverflows(int_i - 1)
          /\ I32MulOverflows(int_prod, int_i)
          /\ int_pc' = "panicked"
          /\ UNCHANGED <<int_prod, int_i>>
    /\ UNCHANGED <<int_end, int_mask>>

\* the range 1..=N is exhausted
IntProductEnd ==
    /\ int_pc = "product"
    /\ int_i = N + 1
    /\ int_pc' = "done"
    /\ UNCHANGED <<int_end, int_i, int_mask, int_prod>>

IntNext ==
    /\ (IntRange \/ IntMask \/ IntMasksEnd \/ IntFactor \/ IntProductEnd)
    /\ UNCHANGED <<noise_vars, grid_vars, cdf_vars>>

SpecInt == IntInit /\ [][IntNext]_vars

\* 2^n by doubling
RECURSIVE PowerOfTwo(_)
PowerOfTwo(n) == IF n = 0 THEN 1 ELSE 2 * PowerOfTwo(n - 1)

\* a natural number of any size as its base-65536 digits, lowest first;
\* digits ds times k plus carry c
RECURSIVE DigitsTimes(_, _, _)
DigitsTimes(ds, k, c) ==
    IF ds = <<>> THEN (IF c = 0 THEN <<>> ELSE <<c>>)
    ELSE LET p == ds[1] * k + c
         IN  <<p % 65536>> \o DigitsTimes(Tail(ds), k, p \div 65536)

\* the digits of n!
RECURSIVE FactorialDigits(_)
FactorialDigits(n) ==
    IF n = 0 THEN <<1>> ELSE DigitsTimes(FactorialDigits(n - 1), n, 0)

\* the digits of the number an i32 bit pattern stands for, when it is not
\* negative
I32Digits(a) == IF a[1] = 0 THEN <<a[2]>> ELSE <<a[2], a[1]>>

\* C13: for every N from 1 to the practical ceiling the integer
\* computations of cdf_irwin_hall do not overflow: 1 << N is 2^N, the mask
\* 1 << i is 2^i for every weight index i < N, and the i32 product
\* 1*2*...*N is N!.
C13_IntegersDoNotOverflow ==
    /\ int_pc # "panicked"
    /\ int_pc \in {"masks", "product", "done"} => int_end = PowerOfTwo(N)
    /\ (int_pc = "masks" /\ int_i > 0) => int_mask = PowerOfTwo(int_i - 1)
    /\ int_pc = "done" =>
          /\ int_prod[1] < 32768
          /\ I32Digits(int_prod) = FactorialDigits(N)

\* up to N = 12 the integer computations are exact
IntegersExactBelow13 == N <= 12 => C13_IntegersDoNotOverflow

----------------------------------------------------------------------------
(* The grid index helpers, called one after the other *)

GridWorlds == [x : 1..MaxDim, y : 1..MaxDim]
\* arguments: every index and coordinate of the largest grid, and some
\* beyond it
GridIdxArgs == 0..(MaxDim * MaxDim)
GridVecArgs == [x : (-1)..MaxDim, y : (-1)..MaxDim]

GridInit ==
    /\ WORLD_SIZE \in GridWorlds
    /\ \/ /\ g_pc = "idx0"
          /\ g_in_idx \in GridIdxArgs
          /\ g_idx = g_in_idx
          /\ g_in_vec = Origin
          /\ g_vec = Origin
       \/ /\ g_pc = "vec0"
          /\ g_in_vec \in GridVecArgs
          /\ g_vec = g_in_vec
          /\ g_in_idx = 0
          /\ g_idx = 0
    /\ f = <<>> /\ pc = "idle" /\ i = 0
    /\ calls = <<>> /\ noise = <<>> /\ total = Zero /\ noise_idx = 0
    /\ uniform_noise_ = <<>> /\ div_by_zero = FALSE
    /\ CdfIdle
    /\ IntIdle

\* uniform_idx_as_vec2(g_idx); a round trip is not continued from an index
\* that stands for 2^64 + g_idx
CallIdxAsVec2 ==
    /\ g_pc \in {"idx0", "idx1"}
    /\ g_idx >= 0
    /\ g_vec' = uniform_idx_as_vec2(g_idx, WORLD_SIZE)
    /\ g_pc' = (IF g_pc = "idx0" THEN "vec1" ELSE "vec2")
    /\ UNCHANGED <<g_in_idx, g_in_vec, g_idx>>

\* vec2_as_uniform_idx(g_vec); when the arithmetic overflows usize, a build
\* with overflow checks panics and a build without them returns the
\* wrapped value
CallVec2AsIdx ==
    /\ g_pc \in {"vec0", "vec1"}
    /\ \/ /\ g_idx' = vec2_as_uniform_idx(g_vec, WORLD_SIZE)
          /\ g_pc' = (IF g_pc = "vec0" THEN "idx1" ELSE "idx2")
       \/ /\ Vec2AsIdxOverflows(g_vec, WORLD_SIZE)
          /\ g_idx' = g_idx
          /\ g_pc' = "panicked"
    /\ UNCHANGED <<g_in_idx, g_in_vec, g_vec>>

GridNext ==
    /\ (CallIdxAsVec2 \/ CallVec2AsIdx)
    /\ UNCHANGED <<noise_vars, cdf_vars, int_vars>>

SpecGrid == GridInit /\ [][GridNext]_vars

ValidIdx(idx, world) == 0 <= idx /\ idx < world.x * world.y
ValidVec(v, world) == 0 <= v.x /\ v.x < world.x /\ 0 <= v.y /\ v.y < world.y

\* C1: on a W x H grid, uniform_idx_as_vec2(i) = (i mod W, i div W) and
\* vec2_as_uniform_idx((x, y)) = y*W + x, and the two are mutual inverses
\* on their valid domains: index -> coordinate -> index returns the index
\* for 0 <= i < W*H, and coordinate -> index -> coordinate returns the
\* coordinate for 0 <= x < W, 0 <= y < H.
C1_MutualInverses ==
    /\ (g_pc = "vec1" /\ ValidIdx(g_in_idx, WORLD_SIZE)) =>
          /\ g_vec.x = g_in_idx % WORLD_SIZE.x
          /\ g_vec.y = g_in_idx \div WORLD_SIZE.x
          /\ ValidVec(g_vec, WORLD_SIZE)
    /\ (g_pc = "idx2" /\ ValidIdx(g_in_idx, WORLD_SIZE)) => g_idx = g_in_idx
    /\ (g_pc = "idx1" /\ ValidVec(g_in_vec, WORLD_SIZE)) =>
          /\ g_idx = g_in_vec.y * WORLD_SIZE.x + g_in_vec.x
          /\ ValidIdx(g_idx, WORLD_SIZE)
    /\ (g_pc = "vec2" /\ ValidVec(g_in_vec, WORLD_SIZE)) => g_vec = g_in_vec

\* a round trip from a coordinate of the second row of a 3 x 2 grid
C1_Witness ==
    /\ g_pc = "vec2"
    /\ WORLD_SIZE = [x |-> 3, y |-> 2]
    /\ g_in_vec = [x |-> 2, y |-> 1]
    /\ g_idx = 5
    /\ g_vec = g_in_vec

\* C14: a call of a grid index helper with an out-of-range argument
\* (vec2_as_uniform_idx with x < 0, x >= W, y < 0 or y >= H,
\* uniform_idx_as_vec2 with an index >= W*H) fails loudly: it does not
\* return, so in particular it returns no valid index or coordinate of
\* another cell.
C14_OutOfRangeFailsLoudly ==
    /\ ~ValidIdx(g_in_idx, WORLD_SIZE) => g_pc # "vec1"
    /\ ~ValidVec(g_in_vec, WORLD_SIZE) => g_pc # "idx1"

\* an out-of-range coordinate is answered with the index of another cell
OutOfRangeReturnsValidIndex ==
    /\ g_pc = "idx1"
    /\ ~ValidVec(g_in_vec, WORLD_SIZE)
    /\ ValidIdx(g_idx, WORLD_SIZE)

====
